---- MODULE Spec2Model ----
(***************************************************************************)
(* Model of the Robot class (movemaster-lib): a command/response engine    *)
(* that drives a robot arm over a serial line.                             *)
(*                                                                         *)
(* Text is a sequence of one-character strings; CR and LF stand for the    *)
(* two bytes of the line terminator.  Numbers are integers counted in      *)
(* quarters (1 = 0.25), which JavaScript doubles represent exactly, so     *)
(* sums and toFixed(1) are modelled exactly.                               *)
(*                                                                         *)
(* One action is one JavaScript task: the synchronous run of a function    *)
(* up to its next await, or a timer / data callback with the promise       *)
(* continuations it makes ready.                                           *)
(***************************************************************************)
EXTENDS Integers, Sequences, FiniteSets, TLC

\* ------------------------------------------------------------------ bounds
\* Number of operations the caller invokes in one run.
MaxCalls == 2
\* Number of data chunks the device sends in one run.
MaxData == 2
\* Bytes the device sends in one framing run (FramerSpec).
MaxBytes == 4

\* ------------------------------------------------------------------- text
CR == "CR"
LF == "LF"
SPC == " "

Whitespace == {CR, LF, SPC}

Last(s) == s[Len(s)]

\* String.prototype.endsWith("\r\n")
EndsWithLFOnly(s) == Len(s) >= 1 /\ s[Len(s)] = LF
EndsWithCRLF(s) == Len(s) >= 2 /\ s[Len(s) - 1] = CR /\ s[Len(s)] = LF

RECURSIVE TrimLeft(_)
TrimLeft(s) ==
  IF s = <<>> THEN <<>>
  ELSE IF Head(s) \in Whitespace THEN TrimLeft(Tail(s)) ELSE s

RECURSIVE TrimRight(_)
TrimRight(s) ==
  IF s = <<>> THEN <<>>
  ELSE IF Last(s) \in Whitespace THEN TrimRight(SubSeq(s, 1, Len(s) - 1)) ELSE s

\* String.prototype.trim()
Trim(s) == TrimRight(TrimLeft(s))

\* ---------------------------------------------------------------- numbers
Abs(v) == IF v < 0 THEN -v ELSE v

\* fmt(value) = value.toFixed(1): the value in tenths, a tie rounded away
\* from zero (quarters are exact doubles, so ties are real ties).
fmt(q) == IF q < 0 THEN -((Abs(q) * 10 + 2) \div 4) ELSE (q * 10 + 2) \div 4

\* Math.floor of a value in quarters, as a whole number.
Floor(q) == q \div 4

\* ------------------------------------------------------------------ poses
Pose(x, y, z, p, r) == [x |-> x, y |-> y, z |-> z, p |-> p, r |-> r]

\* The five formatted coordinates of a pose, as a command carries them.
FmtPose(P) == <<fmt(P.x), fmt(P.y), fmt(P.z), fmt(P.p), fmt(P.r)>>

\* NaN, the result of a failed parseInt / parseFloat: a value outside every
\* range the model computes with.
NaN == 0 - 99999

\* JavaScript's + on numbers: NaN absorbs.
Add(a, b) == IF a = NaN \/ b = NaN THEN NaN ELSE a + b

\* ---------------------------------------------------------------- parsing
DigitChars == <<"0", "1", "2", "3", "4", "5", "6", "7", "8", "9">>
Digits == {DigitChars[i] : i \in 1 .. 10}
DigitVal(ch) == (CHOOSE i \in 1 .. 10 : DigitChars[i] = ch) - 1

\* The longest prefix of s made of digits.
RECURSIVE DigitPrefix(_)
DigitPrefix(s) ==
  IF s = <<>> \/ Head(s) \notin Digits THEN <<>>
  ELSE <<Head(s)>> \o DigitPrefix(Tail(s))

\* The number a sequence of digits denotes (0 for none).
RECURSIVE DecimalValue(_)
DecimalValue(ds) ==
  IF ds = <<>> THEN 0
  ELSE 10 * DecimalValue(SubSeq(ds, 1, Len(ds) - 1)) + DigitVal(Last(ds))

RECURSIVE Pow10(_)
Pow10(k) == IF k = 0 THEN 1 ELSE 10 * Pow10(k - 1)

DropSign(s) == IF s # <<>> /\ Head(s) \in {"+", "-"} THEN Tail(s) ELSE s
SignOf(s) == IF s # <<>> /\ Head(s) = "-" THEN -1 ELSE 1

\* parseInt(text, 10): leading whitespace, a sign, then the digits; NaN when
\* there is no digit.  The result is a whole number.
ParseInt(text) ==
  LET t == TrimLeft(text)
      ds == DigitPrefix(DropSign(t))
  IN IF ds = <<>> THEN NaN ELSE SignOf(t) * DecimalValue(ds)

\* parseFloat(text): leading whitespace, a sign, digits, a point, digits;
\* NaN when neither part has a digit.  The result is in quarters; the texts
\* the model's device sends have fractions that are whole quarters.
ParseFloat(text) ==
  LET t == TrimLeft(text)
      u == DropSign(t)
      ip == DigitPrefix(u)
      rest == SubSeq(u, Len(ip) + 1, Len(u))
      fp == IF rest # <<>> /\ Head(rest) = "." THEN DigitPrefix(Tail(rest))
            ELSE <<>>
  IN IF ip = <<>> /\ fp = <<>> THEN NaN
     ELSE SignOf(t) * (4 * DecimalValue(ip)
                       + (4 * DecimalValue(fp)) \div Pow10(Len(fp)))

\* String.prototype.split(","): the parts between the commas, at least one.
RECURSIVE Split(_)
Split(s) ==
  IF \A i \in 1 .. Len(s) : s[i] # "," THEN <<s>>
  ELSE LET k == CHOOSE i \in 1 .. Len(s) :
                  s[i] = "," /\ \A j \in 1 .. i - 1 : s[j] # ","
       IN <<SubSeq(s, 1, k - 1)>> \o Split(SubSeq(s, k + 1, Len(s)))

\* String.prototype.replace("+", ""): the first "+" removed.
RemoveFirstPlus(s) ==
  IF \A i \in 1 .. Len(s) : s[i] # "+" THEN s
  ELSE LET k == CHOOSE i \in 1 .. Len(s) :
                  s[i] = "+" /\ \A j \in 1 .. i - 1 : s[j] # "+"
       IN SubSeq(s, 1, k - 1) \o SubSeq(s, k + 1, Len(s))

\* One field of the WH response, as getActualPosition cleans and parses it.
ParsePart(part) ==
  LET c1 == RemoveFirstPlus(Trim(part))
      c2 == IF c1 # <<>> /\ Head(c1) = "." THEN <<"0">> \o c1 ELSE c1
  IN ParseFloat(c2)

ParseParts(response) ==
  LET ps == Split(response) IN [i \in 1 .. Len(ps) |-> ParsePart(ps[i])]

\* ----------------------------------------------------------------- errors
PortNotOpen == "Port is not open"
NoCachedPose == "Actual position not set"
SpeedRange == "Speed must be between 0 and 9"
InvalidPosition == "Invalid position response format"
CommandErrored == "Command errored"
\* The error the transport passes to the callback of a write it rejected.
WriteFailed == "write failed"
GripForceRange == "Starting grip force must be between 0 and 15"
RetainedForceRange == "Retained gripping force must be between 0 and 15"
RetentionTimeRange ==
  "Start gripping force retention time must be between 0 and 99"

\* ROBOT_ERRORS
HARDWARE_ERROR == 1
COMMAND_ERROR == 2
UNKNOWN_ERROR == 99

\* --------------------------------------------------------------- commands
Cmd(name, args) == [name |-> name, args |-> args, flag |-> ""]
CmdFlag(name, args, flag) == [name |-> name, args |-> args, flag |-> flag]

\* One entry of a call's log: a command handed to port.write, or a settle
\* delay that has elapsed.
WriteEv(cmd) == [ev |-> "write", cmd |-> cmd]
DelayEv == [ev |-> "delay", cmd |-> Cmd("", <<>>)]

\* ------------------------------------------------------------------ state
VARIABLES
  port,        \* this.port: "null" or "port"
  isOpen,      \* port.isOpen of the SerialPort object created last
  listeners,   \* calls whose "data" handler is registered on it, in order
  position,    \* this.position: <<>> (null) or <<pose>>
  toolIsOpen,  \* this.toolIsOpen
  toolLength,  \* this.toolLength, in quarters
  speed,       \* this.speed
  calls,       \* the operations invoked so far: locals, promise state, log
  nCalls,      \* how many operations have been invoked
  nData,       \* how much the device has sent
  lastWriter   \* history: the call that assigned this.position last (0: none)

vars == <<port, isOpen, listeners, position, toolIsOpen, toolLength, speed,
          calls, nCalls, nData, lastWriter>>

Calls == 1 .. MaxCalls

NoVal == [kind |-> "none", text |-> <<>>, pose |-> <<>>]
VoidVal == [kind |-> "void", text |-> <<>>, pose |-> <<>>]
TextVal(t) == [kind |-> "text", text |-> t, pose |-> <<>>]
PoseVal(P) == [kind |-> "pose", text |-> <<>>, pose |-> <<P>>]
NullVal == [kind |-> "null", text |-> <<>>, pose |-> <<>>]

\* A call slot before its operation is invoked.
IdleCall ==
  [op |-> "none", pc |-> "idle", step |-> 0,
   target |-> <<>>, n |-> 0, points |-> <<>>, arg |-> <<>>, inner |-> 0,
   force |-> FALSE, buf |-> <<>>, log |-> <<>>,
   err |-> "", code |-> 0, val |-> NoVal,
   \* the object the returned pose is: 0 for an object of its own, else the
   \* call whose assignment created the cache object it is
   alias |-> 0,
   \* the transport has reported an error for a write of the call
   failed |-> FALSE,
   \* history, read by no operation: the cache, the speed and the last
   \* writer of the cache when the call was invoked; whether a request
   \* was outstanding when the call wrote its own; the bytes and the
   \* number of chunks its handler received until the call settled, and
   \* the answer the handler delivered to the call
   base |-> <<>>, speed0 |-> 0, prev |-> 0, overlap |-> FALSE,
   heard |-> <<>>, pieces |-> 0, answer |-> <<>>]

Settled == {"resolved", "rejected"}

\* checkPortOpen(): throws unless this.port is set and open.
checkPortOpen == port # "null" /\ isOpen

Resolved(rec, v) == [rec EXCEPT !.pc = "resolved", !.val = v]
Rejected(rec, e) == [rec EXCEPT !.pc = "rejected", !.err = e]

\* sendCommandNoAnswer(command): check the port, write, start the delay.
sendCommandNoAnswer(rec, cmd) ==
  IF ~checkPortOpen THEN Rejected(rec, PortNotOpen)
  ELSE [rec EXCEPT !.log = Append(@, WriteEv(cmd)), !.pc = "delay"]

\* A request has been written and its response has not been delivered.
Outstanding == \E d \in Calls : calls[d].pc = "awaitData"

\* sendCommandWithAnswer(command): check the port, write, register the
\* "data" handler with an empty stringBuffer.
sendCommandWithAnswer(rec, cmd) ==
  IF ~checkPortOpen THEN Rejected(rec, PortNotOpen)
  ELSE [rec EXCEPT !.log = Append(@, WriteEv(cmd)), !.buf = <<>>,
                   !.pc = "awaitData", !.overlap = Outstanding]

\* The handlers registered after call c ran SendCommandWithAnswer.
Registered(c, rec) ==
  IF rec.pc = "awaitData" THEN Append(listeners, c) ELSE listeners

\* ----------------------------------------------------------------- inputs
\* What the device sends in one chunk: a complete answer to ER, a complete
\* answer to WH, or a piece of an answer without its terminator.
DeviceChunks ==
  { <<"0", CR, LF>>,
    <<"2", CR, LF>>,
    <<"1">>,
    <<"1", ",", "+", "2", ",", ".", "5", ",", "-", "1", ",", "0", CR, LF>> }

\* Commands a caller passes to sendCommandWithAnswer.
AnswerCommands == {"WH"}

\* Poses a caller passes, in quarters: (10, 0, 0, 5, 5) and
\* (0.25, -0.75, 0.5, 0, -0.5).
PoseA == Pose(40, 0, 0, 20, 20)
PoseB == Pose(1, -3, 2, 0, -2)
Poses == {PoseA, PoseB}

\* Point lists a caller passes to movePath: one of each length, its
\* neighbouring points different.
MaxPoints == 2
PointLists ==
  {[i \in 1 .. k |-> IF i % 2 = 1 THEN PoseA ELSE PoseB] : k \in 0 .. MaxPoints}

\* Interpolation counts a caller passes.
InterpolateCounts == {0, 2}

\* An argument the caller leaves out is <<>>, one it passes is <<value>>.
Undefined == <<>>

\* Argument lists of moveDelta: x, y, z, pOrInterpolatePoints, r,
\* interpolatePoints; deltas in quarters: (1, 2, 3) and (1, 2, 3, 0.5, -1).
MoveDeltaArgs ==
  { <<4, 8, 12, Undefined, Undefined, Undefined>>,
    <<4, 8, 12, <<2>>, Undefined, Undefined>>,
    <<4, 8, 12, <<2>>, <<-4>>, Undefined>> }

\* Speeds a caller passes, in quarters: -0.25, 0, 5.75, 9, 9.5, 10.
Speeds == {-1, 0, 23, 36, 38, 40}

\* Commands a caller passes to sendCommandNoAnswer.
NoAnswerCommands == {"GO"}

\* Arguments of moveToXYZ, in quarters: (2, 0.5, -1).
XYZArgs == { <<8, 2, -4>> }

\* Tool lengths a caller passes, in quarters: 50.5 and -0.5.
Lengths == {202, -2}

\* Arguments of setGripPressure: inside the three ranges at both ends, and
\* each of the three outside its range at either end.
GripArgs ==
  { <<0, 0, 0>>, <<15, 15, 99>>,
    <<-1, 0, 0>>, <<16, 15, 99>>,
    <<0, -1, 0>>, <<15, 16, 99>>,
    <<0, 0, -1>>, <<15, 15, 100>> }

\* Rotation deltas a caller passes, in quarters: (0.25, -0.75, 0.5, 0, -0.5).
RotateArgs == { <<1, -3, 2, 0, -2>> }

\* Answers the device gives to ER, each in one chunk: the three codes the
\* device defines, other integers, signs and blanks, and texts with no
\* leading integer.
ErrorAnswers ==
  { <<"0", CR, LF>>, <<"1", CR, LF>>, <<"2", CR, LF>>,
    <<"3", CR, LF>>, <<"1", "0", CR, LF>>, <<"-", "1", CR, LF>>,
    <<"+", "0", CR, LF>>, <<SPC, "0", "0", CR, LF>>, <<"0", "a", CR, LF>>,
    <<"a", "0", CR, LF>>, <<"-", CR, LF>>, <<CR, LF>> }

\* Answers the device gives to WH, each in one chunk: five fields, four
\* fields, six fields, five fields with one empty, five fields with one that
\* is no number.
PoseAnswers ==
  { <<"1", ",", "+", "2", ",", ".", "5", ",", "-", "1", ",", "0", CR, LF>>,
    <<"1", ",", "2", ",", "3", ",", "4", CR, LF>>,
    <<"1", ",", "2", ",", "3", ",", "4", ",", "5", ",", "6", CR, LF>>,
    <<"1", ",", ",", "3", ",", "4", ",", "5", CR, LF>>,
    <<"1", ",", "a", ",", "3", ",", "4", ",", "5", CR, LF>> }

\* The value a caller writes into the x field of a pose it was handed.
Tampered == 4000

\* Operations that end in moveTo, and operations that end in the pose query.
MoveOps == {"moveTo", "moveDelta", "moveToXYZ"}
PoseOps == {"getActualPosition", "rotateAxis"}

\* --------------------------------------------------------- error-code query
\* checkRobotErrorCode(): the mapping of the ER answer.
OkResult == [ok |-> TRUE, error |-> 0]
ErrResult(e) == [ok |-> FALSE, error |-> e]

\* The result object as the value of a call: its ok flag, the error code
\* in the call's code field.
ResultVal(r) ==
  [kind |-> IF r.ok THEN "ok" ELSE "error", text |-> <<>>, pose |-> <<>>]

checkRobotErrorCodeWithoutCase2(res) ==
  LET errorCode == ParseInt(res)
  IN IF errorCode = NaN THEN ErrResult(UNKNOWN_ERROR)
     ELSE IF errorCode = 0 THEN OkResult
     ELSE IF errorCode = 1 THEN ErrResult(HARDWARE_ERROR)
     ELSE ErrResult(UNKNOWN_ERROR)
checkRobotErrorCode(res) ==
  LET errorCode == ParseInt(res)
  IN IF errorCode = NaN THEN ErrResult(UNKNOWN_ERROR)
     ELSE IF errorCode = 0 THEN OkResult
     ELSE IF errorCode = 1 THEN ErrResult(HARDWARE_ERROR)
     ELSE IF errorCode = 2 THEN ErrResult(COMMAND_ERROR)
     ELSE ErrResult(UNKNOWN_ERROR)

\* ------------------------------------------------------- response handling
\* st = [calls, position]: the part of the state a "data" event changes.

\* getActualPosition(), after the WH answer: parse, store, return a copy.
AfterWHKeepsCache(st, l, rec, response) ==
  LET parts == ParseParts(response)
  IN IF Len(parts) < 5
     THEN [st EXCEPT !.calls[l] = Rejected(rec, InvalidPosition)]
     ELSE [st EXCEPT !.calls[l] = Resolved(rec, VoidVal)]
AfterWH(st, l, rec, response) ==
  LET parts == ParseParts(response)
  IN IF Len(parts) < 5
     THEN [st EXCEPT !.calls[l] = Rejected(rec, InvalidPosition)]
     ELSE LET P == Pose(parts[1], parts[2], parts[3], parts[4], parts[5])
          IN [calls |-> [st.calls EXCEPT ![l] =
                           Resolved(rec, IF rec.op = "rotateAxis" THEN VoidVal
                                         ELSE PoseVal(P))],
              position |-> <<P>>]

\* withCheck(), after the ER answer: the operation's result, or an error.
AfterERIgnoresResult(st, w, rec, response) ==
  [st EXCEPT !.calls[w] = Resolved(rec, st.calls[rec.inner].val)]
AfterER(st, w, rec, response) ==
  LET errResult == checkRobotErrorCode(response)
  IN IF errResult.ok
     THEN [st EXCEPT !.calls[w] = Resolved(rec, st.calls[rec.inner].val)]
     ELSE [st EXCEPT !.calls[w] =
             [Rejected(rec, CommandErrored) EXCEPT !.code = errResult.error]]

\* resolve(response) and what the awaiting function does next; on a
\* promise that is settled already resolve() does nothing.
OnResponse(st, l, rec0, response) ==
  LET rec == [rec0 EXCEPT !.answer = response]
  IN IF rec0.pc # "awaitData" THEN [st EXCEPT !.calls[l] = rec0]
     ELSE IF rec.op = "sendCommandWithAnswer"
          THEN [st EXCEPT !.calls[l] = Resolved(rec, TextVal(response))]
     ELSE IF rec.op \in PoseOps THEN AfterWH(st, l, rec, response)
     ELSE IF rec.op = "checkRobotErrorCode"
          THEN LET errResult == checkRobotErrorCode(response)
               IN [st EXCEPT !.calls[l] =
                     [Resolved(rec, ResultVal(errResult))
                        EXCEPT !.code = errResult.error]]
     ELSE AfterER(st, l, rec, response)

\* The "data" handler of call l: append, and on a buffer that ends with the
\* terminator deliver the trimmed buffer and clear it.
Handler(st, l, data) ==
  LET rec == st.calls[l]
      b == rec.buf \o data
      rec1 == IF rec.pc # "awaitData" THEN rec
              ELSE [rec EXCEPT !.heard = @ \o data, !.pieces = @ + 1]
  IN IF EndsWithCRLF(b)
     THEN OnResponse(st, l, [rec1 EXCEPT !.buf = <<>>], Trim(b))
     ELSE [st EXCEPT !.calls[l] = [rec1 EXCEPT !.buf = b]]

\* The port emits "data": every registered handler runs, in the order of
\* registration.
RECURSIVE Emit(_, _, _)
Emit(st, ls, data) ==
  IF ls = <<>> THEN st ELSE Emit(Handler(st, Head(ls), data), Tail(ls), data)

\* ----------------------------------------------------------------- actions
Init ==
  /\ port = "null"
  /\ isOpen = FALSE
  /\ listeners = <<>>
  /\ position = <<>>
  /\ toolIsOpen = FALSE
  /\ toolLength = -4
  /\ speed = -1
  /\ calls = [c \in Calls |-> IdleCall]
  /\ nCalls = 0
  /\ nData = 0
  /\ lastWriter = 0

\* A withCheck whose awaited operation has settled: its continuation runs
\* before any other task.
Ready(w) ==
  /\ calls[w].op = "withCheck"
  /\ calls[w].pc = "awaitOp"
  /\ calls[calls[w].inner].pc \in Settled

Quiescent == \A w \in Calls : ~Ready(w)

\* connect(): a new SerialPort, not yet open, with no response handler.
connect ==
  /\ Quiescent
  /\ port = "null"
  /\ port' = "port"
  /\ isOpen' = FALSE
  /\ listeners' = <<>>
  /\ UNCHANGED <<position, toolIsOpen, toolLength, speed, calls, nCalls,
                 nData, lastWriter>>

\* The port's "open" event.
PortOpened ==
  /\ Quiescent
  /\ port = "port"
  /\ ~isOpen
  /\ isOpen' = TRUE
  /\ UNCHANGED <<port, listeners, position, toolIsOpen, toolLength, speed,
                 calls, nCalls, nData, lastWriter>>

\* disconnect(): close the port and forget it.
disconnect ==
  /\ Quiescent
  /\ port # "null"
  /\ port' = "null"
  /\ isOpen' = FALSE
  /\ UNCHANGED <<listeners, position, toolIsOpen, toolLength, speed, calls,
                 nCalls, nData, lastWriter>>

\* The caller invokes sendCommandWithAnswer(command).
InvokeSendCommandWithAnswer ==
  /\ Quiescent
  /\ nCalls < MaxCalls
  /\ \E command \in AnswerCommands :
       LET c == nCalls + 1
           rec == sendCommandWithAnswer(
                    [IdleCall EXCEPT !.op = "sendCommandWithAnswer"],
                    Cmd(command, <<>>))
       IN /\ calls' = [calls EXCEPT ![c] = rec]
          /\ listeners' = Registered(c, rec)
          /\ nCalls' = c
  /\ UNCHANGED <<port, isOpen, position, toolIsOpen, toolLength, speed,
                 nData, lastWriter>>

\* The calls a "data" event resolved as getActualPosition: each assigned
\* this.position, the last registered last.
PoseReaders(cs) ==
  {l \in Calls : /\ calls[l].pc = "awaitData"
                 /\ cs[l].pc = "resolved"
                 /\ cs[l].op \in PoseOps}

Max(S) == CHOOSE m \in S : \A x \in S : x <= m

\* A "data" event with its effect on the calls and the cache.
Deliver(data) ==
  LET st == Emit([calls |-> calls, position |-> position], listeners, data)
  IN /\ calls' = st.calls
     /\ position' = st.position
     /\ lastWriter' = IF PoseReaders(st.calls) = {} THEN lastWriter
                      ELSE Max(PoseReaders(st.calls))

\* The open port delivers one chunk of bytes.
DeviceData ==
  /\ Quiescent
  /\ checkPortOpen
  /\ nData < MaxData
  /\ \E data \in DeviceChunks : Deliver(data)
  /\ nData' = nData + 1
  /\ UNCHANGED <<port, isOpen, listeners, toolIsOpen, toolLength, speed,
                 nCalls>>

\* The framing alphabet: a letter, a blank and the two terminator bytes.
FramerAlphabet == {"a", SPC, CR, LF}
ByteChunks == UNION {[1 .. k -> FramerAlphabet] : k \in 1 .. MaxBytes}

\* The open port delivers one chunk of arbitrary bytes.
DeviceBytes ==
  /\ Quiescent
  /\ checkPortOpen
  /\ \E data \in ByteChunks :
       /\ nData + Len(data) <= MaxBytes
       /\ Deliver(data)
       /\ nData' = nData + Len(data)
  /\ UNCHANGED <<port, isOpen, listeners, toolIsOpen, toolLength, speed,
                 nCalls>>

\* The three commands of an interpolated move and the one of a plain move.
MoveCommand(P) == Cmd("MP", FmtPose(P))
DefineCommand == Cmd("PC", <<1>>)
StoreCommand(slot, P) == Cmd("PD", <<slot>> \o FmtPose(P))
ExecuteCommand(n) == CmdFlag("MS", <<1, n>>, IF toolIsOpen THEN "C" ELSE "O")
RangeCommandFromZero(points) == Cmd("MC", <<0, Len(points) - 1>>)
RangeCommand(points) == Cmd("MC", <<1, Len(points) - 1 + 1>>)

\* moveTo(position, interpolatePoints), up to its first await.
MoveToStart(rec, P, n) ==
  LET r1 == [rec EXCEPT !.target = <<P>>, !.n = n]
  IN IF ~checkPortOpen THEN Rejected(r1, PortNotOpen)
     ELSE IF n = 0 THEN sendCommandNoAnswer(r1, MoveCommand(P))
     ELSE sendCommandNoAnswer(r1, DefineCommand)

\* The caller invokes moveTo(position, interpolatePoints).
moveTo ==
  /\ Quiescent
  /\ nCalls < MaxCalls
  /\ \E P \in Poses, n \in InterpolateCounts :
       calls' = [calls EXCEPT ![nCalls + 1] =
                   MoveToStart([IdleCall EXCEPT !.op = "moveTo"], P, n)]
  /\ nCalls' = nCalls + 1
  /\ UNCHANGED <<port, isOpen, listeners, position, toolIsOpen, toolLength,
                 speed, nData, lastWriter>>

\* moveDelta: the absolute pose the overloads resolve to.
MoveDeltaTarget(pos, a) ==
  LET three == a[5] = Undefined /\ a[6] = Undefined
      p == IF three THEN pos.p
           ELSE IF a[4] = Undefined THEN pos.p ELSE a[4][1]
      r == IF three THEN pos.r
           ELSE IF a[5] = Undefined THEN pos.r ELSE a[5][1]
  IN Pose(Add(pos.x, a[1]), Add(pos.y, a[2]), Add(pos.z, a[3]),
          Add(pos.p, p), Add(pos.r, r))

\* moveDelta: the interpolation count the overloads resolve to.
MoveDeltaCount(a) ==
  LET three == a[5] = Undefined /\ a[6] = Undefined
      given == IF three THEN a[4] ELSE a[6]
  IN IF given = Undefined THEN 0 ELSE given[1]

\* The caller invokes moveDelta(x, y, z, ...).
moveDelta ==
  /\ Quiescent
  /\ nCalls < MaxCalls
  /\ \E a \in MoveDeltaArgs :
       LET rec == [IdleCall EXCEPT !.op = "moveDelta", !.arg = a,
                                   !.base = position]
       IN calls' = [calls EXCEPT ![nCalls + 1] =
            IF position = <<>> THEN Rejected(rec, NoCachedPose)
            ELSE MoveToStart(rec, MoveDeltaTarget(position[1], a),
                             MoveDeltaCount(a))]
  /\ nCalls' = nCalls + 1
  /\ UNCHANGED <<port, isOpen, listeners, position, toolIsOpen, toolLength,
                 speed, nData, lastWriter>>

\* The caller invokes getActualPosition(forceUpdateByHardware).
getActualPosition ==
  /\ Quiescent
  /\ nCalls < MaxCalls
  /\ \E force \in BOOLEAN :
       LET c == nCalls + 1
           r0 == [IdleCall EXCEPT !.op = "getActualPosition",
                                  !.force = force, !.base = position,
                                  !.prev = lastWriter]
           rec == IF ~force /\ position # <<>>
                  THEN Resolved(r0, PoseVal(position[1]))
                  ELSE sendCommandWithAnswer(r0, Cmd("WH", <<>>))
       IN /\ calls' = [calls EXCEPT ![c] = rec]
          /\ listeners' = Registered(c, rec)
  /\ nCalls' = nCalls + 1
  /\ UNCHANGED <<port, isOpen, position, toolIsOpen, toolLength, speed,
                 nData, lastWriter>>

\* movePath(points), up to its first await.
MovePathStart(rec, points) ==
  LET r1 == [rec EXCEPT !.points = points]
  IN IF ~checkPortOpen THEN Rejected(r1, PortNotOpen)
     ELSE IF Len(points) > 0
          THEN sendCommandNoAnswer(r1, StoreCommand(0 + 1, points[1]))
     ELSE sendCommandNoAnswer(r1, RangeCommand(points))

\* The caller invokes movePath(points).
movePath ==
  /\ Quiescent
  /\ nCalls < MaxCalls
  /\ \E points \in PointLists :
       calls' = [calls EXCEPT ![nCalls + 1] =
                   MovePathStart([IdleCall EXCEPT !.op = "movePath"], points)]
  /\ nCalls' = nCalls + 1
  /\ UNCHANGED <<port, isOpen, listeners, position, toolIsOpen, toolLength,
                 speed, nData, lastWriter>>

\* setSpeed: the range check on the floored speed.
SpeedRejected(s) == Floor(s) < 0 \/ Floor(s) > 9

\* The caller invokes setSpeed(speed).
setSpeed ==
  /\ Quiescent
  /\ nCalls < MaxCalls
  /\ \E s \in Speeds :
       LET rec == [IdleCall EXCEPT !.op = "setSpeed", !.arg = <<s>>,
                                   !.speed0 = speed]
           roundedSpeed == Floor(s)
       IN IF ~checkPortOpen
          THEN /\ calls' = [calls EXCEPT ![nCalls + 1] =
                              Rejected(rec, PortNotOpen)]
               /\ speed' = speed
          ELSE IF SpeedRejected(s)
          THEN /\ calls' = [calls EXCEPT ![nCalls + 1] =
                              Rejected(rec, SpeedRange)]
               /\ speed' = speed
          ELSE /\ calls' = [calls EXCEPT ![nCalls + 1] =
                              sendCommandNoAnswer(rec,
                                Cmd("SP", <<roundedSpeed>>))]
               /\ speed' = roundedSpeed
  /\ nCalls' = nCalls + 1
  /\ UNCHANGED <<port, isOpen, listeners, position, toolIsOpen, toolLength,
                 nData, lastWriter>>

\* The caller invokes sendCommandNoAnswer(command).
InvokeSendCommandNoAnswer ==
  /\ Quiescent
  /\ nCalls < MaxCalls
  /\ \E command \in NoAnswerCommands :
       calls' = [calls EXCEPT ![nCalls + 1] =
                   sendCommandNoAnswer(
                     [IdleCall EXCEPT !.op = "sendCommandNoAnswer"],
                     Cmd(command, <<>>))]
  /\ nCalls' = nCalls + 1
  /\ UNCHANGED <<port, isOpen, listeners, position, toolIsOpen, toolLength,
                 speed, nData, lastWriter>>

\* The caller invokes checkRobotErrorCode().
InvokeCheckRobotErrorCode ==
  /\ Quiescent
  /\ nCalls < MaxCalls
  /\ LET c == nCalls + 1
         r0 == [IdleCall EXCEPT !.op = "checkRobotErrorCode"]
         rec == IF ~checkPortOpen THEN Rejected(r0, PortNotOpen)
                ELSE sendCommandWithAnswer(r0, Cmd("ER", <<>>))
     IN /\ calls' = [calls EXCEPT ![c] = rec]
        /\ listeners' = Registered(c, rec)
        /\ nCalls' = c
  /\ UNCHANGED <<port, isOpen, position, toolIsOpen, toolLength, speed,
                 nData, lastWriter>>

\* The caller invokes moveToXYZ(x, y, z, interpolatePoints).
moveToXYZ ==
  /\ Quiescent
  /\ nCalls < MaxCalls
  /\ \E a \in XYZArgs, n \in InterpolateCounts :
       LET rec == [IdleCall EXCEPT !.op = "moveToXYZ", !.arg = a,
                                   !.base = position]
       IN calls' = [calls EXCEPT ![nCalls + 1] =
            IF position = <<>> THEN Rejected(rec, NoCachedPose)
            ELSE MoveToStart(rec, Pose(a[1], a[2], a[3], position[1].p,
                                       position[1].r), n)]
  /\ nCalls' = nCalls + 1
  /\ UNCHANGED <<port, isOpen, listeners, position, toolIsOpen, toolLength,
                 speed, nData, lastWriter>>

\* The caller invokes setGripper(open); this.toolIsOpen is assigned after
\* the settle delay.
setGripper ==
  /\ Quiescent
  /\ nCalls < MaxCalls
  /\ \E open \in BOOLEAN :
       LET rec == [IdleCall EXCEPT !.op = "setGripper", !.arg = <<open>>]
       IN calls' = [calls EXCEPT ![nCalls + 1] =
            IF ~checkPortOpen THEN Rejected(rec, PortNotOpen)
            ELSE IF open THEN sendCommandNoAnswer(rec, Cmd("GO", <<>>))
            ELSE sendCommandNoAnswer(rec, Cmd("GC", <<>>))]
  /\ nCalls' = nCalls + 1
  /\ UNCHANGED <<port, isOpen, listeners, position, toolIsOpen, toolLength,
                 speed, nData, lastWriter>>

\* setToolLength(length): the port check, then the assignment, then the
\* write.
ToolLengthAssignedFirst(length) == length
ToolLengthAfter(length) == IF ~checkPortOpen THEN toolLength ELSE length

\* The caller invokes setToolLength(length).
setToolLength ==
  /\ Quiescent
  /\ nCalls < MaxCalls
  /\ \E length \in Lengths :
       LET rec == [IdleCall EXCEPT !.op = "setToolLength", !.arg = <<length>>]
       IN /\ calls' = [calls EXCEPT ![nCalls + 1] =
               IF ~checkPortOpen THEN Rejected(rec, PortNotOpen)
               ELSE sendCommandNoAnswer(rec, Cmd("TL", <<Floor(length)>>))]
          /\ toolLength' = ToolLengthAfter(length)
  /\ nCalls' = nCalls + 1
  /\ UNCHANGED <<port, isOpen, listeners, position, toolIsOpen, speed,
                 nData, lastWriter>>

\* setGripPressure: the three range checks, in order; "" when all pass.
GripRejectionFirstOnly(a) ==
  IF a[1] < 0 \/ a[1] > 15 THEN GripForceRange ELSE ""
GripRejection(a) ==
  IF a[1] < 0 \/ a[1] > 15 THEN GripForceRange
  ELSE IF a[2] < 0 \/ a[2] > 15 THEN RetainedForceRange
  ELSE IF a[3] < 0 \/ a[3] > 99 THEN RetentionTimeRange
  ELSE ""

\* The caller invokes setGripPressure(startingGripForce,
\* retainedGrippingForce, startGrippingForceRetentionTime).
setGripPressure ==
  /\ Quiescent
  /\ nCalls < MaxCalls
  /\ \E a \in GripArgs :
       LET rec == [IdleCall EXCEPT !.op = "setGripPressure", !.arg = a]
       IN calls' = [calls EXCEPT ![nCalls + 1] =
            IF ~checkPortOpen THEN Rejected(rec, PortNotOpen)
            ELSE IF GripRejection(a) # "" THEN Rejected(rec, GripRejection(a))
            ELSE sendCommandNoAnswer(rec, Cmd("GP", a))]
  /\ nCalls' = nCalls + 1
  /\ UNCHANGED <<port, isOpen, listeners, position, toolIsOpen, toolLength,
                 speed, nData, lastWriter>>

\* The rotation command with its five formatted deltas.
RotateCommand(a) ==
  Cmd("MJ", <<fmt(a[1]), fmt(a[2]), fmt(a[3]), fmt(a[4]), fmt(a[5])>>)

\* The caller invokes rotateAxis(x, y, z, p, r); the pose query follows the
\* settle delay.
rotateAxis ==
  /\ Quiescent
  /\ nCalls < MaxCalls
  /\ \E a \in RotateArgs :
       LET rec == [IdleCall EXCEPT !.op = "rotateAxis", !.arg = a,
                                   !.base = position]
       IN calls' = [calls EXCEPT ![nCalls + 1] =
            IF ~checkPortOpen THEN Rejected(rec, PortNotOpen)
            ELSE sendCommandNoAnswer(rec, RotateCommand(a))]
  /\ nCalls' = nCalls + 1
  /\ UNCHANGED <<port, isOpen, listeners, position, toolIsOpen, toolLength,
                 speed, nData, lastWriter>>

\* An operation that is the port check and one command, up to its await.
OneCommand(op, name) ==
  LET rec == [IdleCall EXCEPT !.op = op]
  IN IF ~checkPortOpen THEN Rejected(rec, PortNotOpen)
     ELSE sendCommandNoAnswer(rec, Cmd(name, <<>>))

\* The caller invokes moveToHomePosition(): all axes to the zero position.
moveToHomePosition ==
  /\ Quiescent
  /\ nCalls < MaxCalls
  /\ calls' = [calls EXCEPT ![nCalls + 1] =
                 OneCommand("moveToHomePosition", "OG")]
  /\ nCalls' = nCalls + 1
  /\ UNCHANGED <<port, isOpen, listeners, position, toolIsOpen, toolLength,
                 speed, nData, lastWriter>>

\* The caller invokes nest(): the mechanical origin.
nest ==
  /\ Quiescent
  /\ nCalls < MaxCalls
  /\ calls' = [calls EXCEPT ![nCalls + 1] = OneCommand("nest", "NT")]
  /\ nCalls' = nCalls + 1
  /\ UNCHANGED <<port, isOpen, listeners, position, toolIsOpen, toolLength,
                 speed, nData, lastWriter>>

\* The caller invokes reset(): the control box is reset.
reset ==
  /\ Quiescent
  /\ nCalls < MaxCalls
  /\ calls' = [calls EXCEPT ![nCalls + 1] = OneCommand("reset", "RS")]
  /\ nCalls' = nCalls + 1
  /\ UNCHANGED <<port, isOpen, listeners, position, toolIsOpen, toolLength,
                 speed, nData, lastWriter>>

\* getPosition(): this.position itself, the cache object or null.
GetPosition(rec) ==
  IF position = <<>> THEN Resolved(rec, NullVal)
  ELSE [Resolved(rec, PoseVal(position[1])) EXCEPT !.alias = lastWriter]

\* The caller invokes getPosition().
getPosition ==
  /\ Quiescent
  /\ nCalls < MaxCalls
  /\ calls' = [calls EXCEPT ![nCalls + 1] =
                 GetPosition([IdleCall EXCEPT !.op = "getPosition",
                                              !.base = position])]
  /\ nCalls' = nCalls + 1
  /\ UNCHANGED <<port, isOpen, listeners, position, toolIsOpen, toolLength,
                 speed, nData, lastWriter>>

\* The caller assigns the x field of a pose a call returned to it.  The
\* write reaches this.position when the returned object is the cache object
\* and the cache has not been assigned since.
CallerMutates ==
  /\ Quiescent
  /\ \E c \in Calls :
       /\ calls[c].pc = "resolved"
       /\ calls[c].val.kind = "pose"
       /\ calls[c].val.pose[1].x # Tampered
       /\ calls' = [calls EXCEPT ![c].val.pose[1].x = Tampered]
       /\ position' = IF calls[c].alias # 0 /\ calls[c].alias = lastWriter
                      THEN <<[position[1] EXCEPT !.x = Tampered]>>
                      ELSE position
  /\ UNCHANGED <<port, isOpen, listeners, toolIsOpen, toolLength, speed,
                 nCalls, nData, lastWriter>>

\* The open port delivers the device's answer to ER in one chunk.
DeviceAnswer ==
  /\ Quiescent
  /\ checkPortOpen
  /\ nData < MaxData
  /\ \E data \in ErrorAnswers : Deliver(data)
  /\ nData' = nData + 1
  /\ UNCHANGED <<port, isOpen, listeners, toolIsOpen, toolLength, speed,
                 nCalls>>

\* The open port delivers the device's answer to WH in one chunk.
DevicePose ==
  /\ Quiescent
  /\ checkPortOpen
  /\ nData < MaxData
  /\ \E data \in PoseAnswers : Deliver(data)
  /\ nData' = nData + 1
  /\ UNCHANGED <<port, isOpen, listeners, toolIsOpen, toolLength, speed,
                 nCalls>>

\* The last command call c handed to port.write has no outcome yet: the
\* call is in the settle delay that follows the write, or waits for the
\* response.
WritePending(c) ==
  /\ calls[c].pc \in {"delay", "awaitData"}
  /\ calls[c].log # <<>>
  /\ Last(calls[c].log).ev = "write"
  /\ ~calls[c].failed

\* The call after the transport reported an error for its write.
\* sendCommandWithAnswer passes port.write a callback that rejects the
\* promise; sendCommandNoAnswer passes none, and the call goes on.
OnWriteError(rec) ==
  IF rec.pc = "awaitData"
  THEN [Rejected(rec, WriteFailed) EXCEPT !.failed = TRUE]
  ELSE [rec EXCEPT !.failed = TRUE]

\* The transport reports an error for the last write of a call.
WriteError ==
  /\ Quiescent
  /\ \E c \in Calls :
       /\ WritePending(c)
       /\ calls' = [calls EXCEPT ![c] = OnWriteError(calls[c])]
  /\ UNCHANGED <<port, isOpen, listeners, position, toolIsOpen, toolLength,
                 speed, nCalls, nData, lastWriter>>

\* The caller invokes withCheck(result), result the promise of an
\* operation invoked before.
withCheck ==
  /\ Quiescent
  /\ nCalls < MaxCalls
  /\ \E c \in 1 .. nCalls :
       calls' = [calls EXCEPT ![nCalls + 1] =
                   [IdleCall EXCEPT !.op = "withCheck", !.inner = c,
                                    !.pc = "awaitOp"]]
  /\ nCalls' = nCalls + 1
  /\ UNCHANGED <<port, isOpen, listeners, position, toolIsOpen, toolLength,
                 speed, nData, lastWriter>>

\* withCheck after the awaited operation settled: its failure is thrown
\* on, its success is followed by checkRobotErrorCode().
WithCheckAfterOp(w) ==
  LET rec == calls[w]
      op == calls[rec.inner]
  IN IF op.pc = "rejected"
     THEN [Rejected(rec, op.err) EXCEPT !.code = op.code]
     ELSE sendCommandWithAnswer(rec, Cmd("ER", <<>>))

WithCheckResume ==
  /\ \E w \in Calls :
       /\ Ready(w)
       /\ calls' = [calls EXCEPT ![w] = WithCheckAfterOp(w)]
       /\ listeners' = Registered(w, WithCheckAfterOp(w))
  /\ UNCHANGED <<port, isOpen, position, toolIsOpen, toolLength, speed,
                 nCalls, nData, lastWriter>>

\* A call after one more settle delay has elapsed; k counts its delays.
AfterDelay(rec, k) ==
  IF rec.op \in MoveOps
  THEN IF rec.n = 0 \/ k = 3 THEN Resolved(rec, VoidVal)
       ELSE IF k = 1
            THEN sendCommandNoAnswer(rec, StoreCommand(1, rec.target[1]))
       ELSE sendCommandNoAnswer(rec, ExecuteCommand(rec.n))
  ELSE IF rec.op = "movePath"
  THEN LET N == Len(rec.points)
       IN IF k = 2 * N + 1 THEN Resolved(rec, VoidVal)
          ELSE IF k = 2 * N
               THEN sendCommandNoAnswer(rec, RangeCommand(rec.points))
          ELSE IF k % 2 = 1 THEN [rec EXCEPT !.pc = "delay"]
          ELSE sendCommandNoAnswer(rec,
                 StoreCommand(k \div 2 + 1, rec.points[k \div 2 + 1]))
  ELSE IF rec.op = "rotateAxis"
  THEN sendCommandWithAnswer(rec, Cmd("WH", <<>>))
  ELSE Resolved(rec, VoidVal)

\* this.toolIsOpen after call c's step: a setGripper that has just completed
\* stores its argument.
ToolAfter(rec) ==
  IF rec.op = "setGripper" /\ rec.pc = "resolved" THEN rec.arg[1]
  ELSE toolIsOpen

\* this.position after call c's step: a move that has just completed
\* stores its target.
PositionAfterPlainOnly(rec) ==
  IF rec.op \in MoveOps /\ rec.pc = "resolved" /\ rec.n = 0
  THEN rec.target ELSE position
PositionAfter(rec) ==
  IF rec.op \in MoveOps /\ rec.pc = "resolved"
  THEN rec.target ELSE position

\* A settle delay of call c elapses and the call runs to its next await.
delay ==
  /\ Quiescent
  /\ \E c \in Calls :
       /\ calls[c].pc = "delay"
       /\ LET k == calls[c].step + 1
              rec == AfterDelay([calls[c] EXCEPT !.step = k,
                                   !.log = Append(@, DelayEv)], k)
          IN /\ calls' = [calls EXCEPT ![c] = rec]
             /\ listeners' = Registered(c, rec)
             /\ toolIsOpen' = ToolAfter(rec)
             /\ position' = PositionAfter(rec)
             /\ lastWriter' = IF rec.op \in MoveOps
                                 /\ rec.pc = "resolved"
                              THEN c ELSE lastWriter
  /\ UNCHANGED <<port, isOpen, toolLength, speed, nCalls, nData>>

Next ==
  \/ moveTo
  \/ moveDelta
  \/ getActualPosition
  \/ movePath
  \/ setSpeed
  \/ withCheck
  \/ WithCheckResume
  \/ delay
  \/ connect
  \/ PortOpened
  \/ disconnect
  \/ InvokeSendCommandWithAnswer
  \/ DeviceData
  \/ InvokeSendCommandNoAnswer
  \/ InvokeCheckRobotErrorCode
  \/ moveToXYZ
  \/ setGripper
  \/ setToolLength
  \/ setGripPressure
  \/ rotateAxis
  \/ moveToHomePosition
  \/ nest
  \/ reset
  \/ getPosition
  \/ CallerMutates
  \/ WriteError

Spec == Init /\ [][Next]_vars

\* The event loop runs every timer that is due and every continuation that
\* is ready; the device and the caller owe nothing.
FairSpec == Spec /\ WF_vars(delay) /\ WF_vars(WithCheckResume)

\* Framing alone: calls of sendCommandWithAnswer on a port over which the
\* device sends arbitrary bytes in arbitrary chunks.
FramerNext ==
  \/ connect
  \/ PortOpened
  \/ InvokeSendCommandWithAnswer
  \/ DeviceBytes

FramerSpec == Init /\ [][FramerNext]_vars

\* The pose cache alone: every operation that reads or assigns
\* this.position, on a port that opens and closes.
CacheNext ==
  \/ connect
  \/ PortOpened
  \/ disconnect
  \/ moveTo
  \/ moveDelta
  \/ getActualPosition
  \/ delay
  \/ DeviceData

CacheSpec == Init /\ [][CacheNext]_vars

\* Path moves alone, on a port that opens and closes.
PathNext ==
  \/ connect
  \/ PortOpened
  \/ disconnect
  \/ movePath
  \/ delay

PathSpec == Init /\ [][PathNext]_vars

\* The error-check wrapper alone: withCheck around operations that return
\* a text, return nothing or fail, with other requests on the same port.
CheckNext ==
  \/ connect
  \/ PortOpened
  \/ disconnect
  \/ InvokeSendCommandWithAnswer
  \/ setSpeed
  \/ withCheck
  \/ WithCheckResume
  \/ delay
  \/ DeviceData

CheckSpec == Init /\ [][CheckNext]_vars

\* The pose query alone: getActualPosition and rotateAxis on a port that
\* opens and closes, the device answering WH well and badly.
PoseNext ==
  \/ connect
  \/ PortOpened
  \/ disconnect
  \/ getActualPosition
  \/ rotateAxis
  \/ delay
  \/ DevicePose

PoseSpec == Init /\ [][PoseNext]_vars

\* The error-code query alone: checkRobotErrorCode on a port that opens and
\* closes, the device answering ER with any of its answers.
ErrorNext ==
  \/ connect
  \/ PortOpened
  \/ disconnect
  \/ InvokeCheckRobotErrorCode
  \/ DeviceAnswer

ErrorSpec == Init /\ [][ErrorNext]_vars

\* The port check alone: the invocation of every operation that begins with
\* checkPortOpen, up to its first await, on a port that opens and closes.
TransportNext ==
  \/ connect
  \/ PortOpened
  \/ disconnect
  \/ InvokeSendCommandNoAnswer
  \/ InvokeSendCommandWithAnswer
  \/ InvokeCheckRobotErrorCode
  \/ moveTo
  \/ movePath
  \/ setGripper
  \/ setSpeed
  \/ setToolLength
  \/ setGripPressure
  \/ rotateAxis
  \/ moveToHomePosition
  \/ nest
  \/ reset

TransportSpec == Init /\ [][TransportNext]_vars

\* Grip pressure alone, with the tool length as a cache that changes, on a port
\* that opens and closes.
GripNext ==
  \/ connect
  \/ PortOpened
  \/ disconnect
  \/ setGripPressure
  \/ setToolLength
  \/ delay

GripSpec == Init /\ [][GripNext]_vars

\* ================================================================== claims
Awaiting(c) == calls[c].pc = "awaitData"

\* The failure the design names for an overlapping request.
ProtocolViolation == "ProtocolViolation"

\* C1: at most one request is outstanding: a call that writes its request
\* while an earlier request is still waiting for its response fails with
\* ProtocolViolation and writes nothing.
C1_SecondRequestRejected ==
  /\ Cardinality({c \in Calls : Awaiting(c)}) <= 1
  /\ \A c \in Calls :
       calls[c].overlap =>
         /\ calls[c].pc = "rejected"
         /\ calls[c].err = ProtocolViolation
         /\ calls[c].log = <<>>

\* The bytes hold the terminator CR LF somewhere.
HasTerminator(h) ==
  \E i \in 1 .. Len(h) - 1 : h[i] = CR /\ h[i + 1] = LF

\* The bytes are exactly one line: the terminator at the end, and nowhere else.
OneLine(h) ==
  /\ Len(h) >= 2
  /\ h[Len(h) - 1] = CR
  /\ h[Len(h)] = LF
  /\ \A i \in 1 .. Len(h) - 2 : ~(h[i] = CR /\ h[i + 1] = LF)

\* t is h without the whitespace at its two ends.
IsTrimOf(t, h) ==
  /\ t # <<>> => (t[1] \notin Whitespace /\ t[Len(t)] \notin Whitespace)
  /\ \E i \in 0 .. Len(h) : \E j \in i .. Len(h) :
       /\ t = SubSeq(h, i + 1, j)
       /\ \A k \in 1 .. i : h[k] \in Whitespace
       /\ \A k \in j + 1 .. Len(h) : h[k] \in Whitespace

\* C2: however the bytes are split into chunks, a pending
\* sendCommandWithAnswer does not complete while the bytes its handler has
\* received hold no terminator, and once they are exactly one terminated line
\* it has completed with the trimmed line, which later chunks do not change.
C2_OneLineOneResponse ==
  \A c \in Calls :
    calls[c].op = "sendCommandWithAnswer" =>
      /\ ~HasTerminator(calls[c].heard) => calls[c].pc # "resolved"
      /\ OneLine(calls[c].heard) =>
           /\ calls[c].pc = "resolved"
           /\ calls[c].val.kind = "text"
           /\ IsTrimOf(calls[c].val.text, calls[c].heard)
           /\ calls[c].answer = calls[c].val.text

\* C2 witness: a line with blanks around its text arrived in several chunks
\* and was delivered trimmed.
C2_Witness ==
  \E c \in Calls :
    /\ calls[c].op = "sendCommandWithAnswer"
    /\ OneLine(calls[c].heard)
    /\ calls[c].pieces >= 2
    /\ calls[c].pc = "resolved"
    /\ calls[c].val.text # <<>>
    /\ Len(calls[c].val.text) < Len(calls[c].heard) - 2

\* C3: response consumers never accumulate: at most one handler is
\* registered, and only for a call that still waits for its response.
C3_ConsumersNeverAccumulate ==
  /\ Len(listeners) <= 1
  /\ \A i \in 1 .. Len(listeners) : Awaiting(listeners[i])

\* C4: every call that waits for a response eventually completes, also when
\* the device never sends a terminator.
C4_EveryRequestCompletes ==
  \A c \in Calls : Awaiting(c) ~> (calls[c].pc \in Settled)

\* C5: after disconnect() no call is left waiting for a response: a call
\* that was waiting has been rejected with Disconnected.
C5_DisconnectRejectsWaiters ==
  port = "null" => \A c \in Calls : ~Awaiting(c)

\* The call used the three-argument form of moveDelta.
ThreeArgument(a) == a[5] = Undefined /\ a[6] = Undefined

\* C6: three-argument moveDelta(dx, dy, dz) with the cached pose
\* (x, y, z, p, r) moves to (x+dx, y+dy, z+dz, p, r), pitch and roll reused
\* unchanged, and leaves the cache at that pose.
C6_MoveDeltaKeepsPitchRoll ==
  \A c \in Calls :
    (/\ calls[c].op = "moveDelta"
     /\ ThreeArgument(calls[c].arg)
     /\ calls[c].base # <<>>) =>
      LET b == calls[c].base[1]
          a == calls[c].arg
          T == Pose(b.x + a[1], b.y + a[2], b.z + a[3], b.p, b.r)
      IN /\ calls[c].target = <<T>>
         /\ (calls[c].pc = "resolved" /\ lastWriter = c) => position = <<T>>

\* C7: getActualPosition(false), invoked when the cache was last written by
\* a completed moveTo(P, n), returns P in all five fields and writes nothing.
C7_CacheRoundTrip ==
  \A g \in Calls :
    (/\ calls[g].op = "getActualPosition"
     /\ ~calls[g].force
     /\ calls[g].prev # 0
     /\ calls[calls[g].prev].op = "moveTo") =>
      /\ calls[g].pc = "resolved"
      /\ calls[g].val = PoseVal(calls[calls[g].prev].target[1])
      /\ calls[g].log = <<>>

\* C7 witness: the read follows an interpolated moveTo.
C7_Witness ==
  \E g \in Calls :
    /\ calls[g].op = "getActualPosition"
    /\ ~calls[g].force
    /\ calls[g].prev # 0
    /\ calls[calls[g].prev].op = "moveTo"
    /\ calls[calls[g].prev].n > 0
    /\ calls[g].pc = "resolved"

IsPrefix(a, b) == Len(a) <= Len(b) /\ SubSeq(b, 1, Len(a)) = a

\* What movePath is to write and wait: for point i the store into slot i
\* and the settle delays, then the range 1 .. N and its delay.
RECURSIVE PathStores(_, _)
PathStores(points, i) ==
  IF i > Len(points) THEN <<>>
  ELSE << [ev |-> "write",
           cmd |-> [name |-> "PD",
                    args |-> <<i, fmt(points[i].x), fmt(points[i].y),
                               fmt(points[i].z), fmt(points[i].p),
                               fmt(points[i].r)>>,
                    flag |-> ""]],
          DelayEv, DelayEv >> \o PathStores(points, i + 1)

PathExpected(points) ==
  PathStores(points, 1)
    \o << [ev |-> "write",
           cmd |-> [name |-> "MC", args |-> <<1, Len(points)>>, flag |-> ""]],
          DelayEv >>

\* C8: movePath(points) writes PD for slots 1 .. N in order, each followed
\* by the settle delay, then one MC 1, N, and nothing else: at every moment
\* its log is a prefix of that sequence, and the whole of it once it has
\* completed.
C8_MovePathOrder ==
  \A c \in Calls :
    calls[c].op = "movePath" =>
      /\ IsPrefix(calls[c].log, PathExpected(calls[c].points))
      /\ calls[c].pc = "resolved" <=>
           calls[c].log = PathExpected(calls[c].points)

\* C8 witness: a path of two points or more has completed.
C8_Witness ==
  \E c \in Calls :
    /\ calls[c].op = "movePath"
    /\ Len(calls[c].points) >= 2
    /\ calls[c].points[1] # calls[c].points[2]
    /\ calls[c].pc = "resolved"

\* C9: on an open port setSpeed(s) fails with the validation error, writes
\* nothing and leaves the cached speed for every s outside [0, 9]; for every
\* s inside it writes SP with s truncated and caches that; the cached speed
\* is unset or in 0 .. 9.
C9_SpeedValidated ==
  /\ speed \in {-1} \cup 0 .. 9
  /\ \A c \in Calls :
       (calls[c].op = "setSpeed" /\ calls[c].err # PortNotOpen) =>
         LET s == calls[c].arg[1]
         IN IF s < 0 \/ s > 9 * 4
            THEN /\ calls[c].pc = "rejected"
                 /\ calls[c].err = SpeedRange
                 /\ calls[c].log = <<>>
                 /\ nCalls = c => speed = calls[c].speed0
            ELSE /\ calls[c].pc \in {"delay", "resolved"}
                 /\ calls[c].log[1] = WriteEv(Cmd("SP", <<s \div 4>>))
                 /\ nCalls = c => speed = s \div 4

\* C10: withCheck(operation) writes ER only after the operation has
\* completed; it returns the operation's result when the answer maps to Ok,
\* fails with the mapped code when it maps to anything else, and passes a
\* failure of the operation on unchanged, without writing ER.
C10_WithCheck ==
  \A w \in Calls :
    calls[w].op = "withCheck" =>
      LET o == calls[calls[w].inner]
          mapped == checkRobotErrorCode(calls[w].answer)
      IN /\ calls[w].log # <<>> =>
              /\ o.pc = "resolved"
              /\ calls[w].log = <<WriteEv(Cmd("ER", <<>>))>>
         /\ calls[w].pc = "resolved" =>
              /\ o.pc = "resolved"
              /\ calls[w].val = o.val
              /\ mapped.ok
         /\ calls[w].pc = "rejected" =>
              \/ /\ o.pc = "rejected"
                 /\ calls[w].err = o.err
                 /\ calls[w].code = o.code
              \/ /\ o.pc = "resolved"
                 /\ calls[w].err = CommandErrored
                 /\ ~mapped.ok
                 /\ calls[w].code = mapped.error
              \/ /\ o.pc = "resolved"
                 /\ calls[w].err = PortNotOpen
         /\ o.pc = "rejected" =>
              /\ calls[w].pc \in {"awaitOp", "rejected"}
              /\ calls[w].log = <<>>

\* C10 witness: the operation returned a text and the check answered Ok.
C10_Witness ==
  \E w \in Calls :
    /\ calls[w].op = "withCheck"
    /\ calls[w].pc = "resolved"
    /\ calls[w].val.kind = "text"
    /\ calls[w].val.text # calls[w].answer

\* The fields of a WH answer, and an answer with five numeric fields first.
Fields(answer) == Split(answer)
Numeric(field) == ParsePart(field) # NaN
WellFormed(answer) ==
  /\ Len(Fields(answer)) >= 5
  /\ \A i \in 1 .. 5 : Numeric(Fields(answer)[i])

\* C11: getActualPosition(true) fails with the malformed-response error
\* whenever the WH answer has fewer than five fields or one of its first five
\* fields is no number, and then does not assign the cache; otherwise it
\* returns the five parsed fields; the cache never holds a field that is no
\* number.
C11_MalformedResponseRejected ==
  /\ position # <<>> =>
       \A f \in {"x", "y", "z", "p", "r"} : position[1][f] # NaN
  /\ \A c \in Calls :
       (/\ calls[c].op = "getActualPosition"
        /\ calls[c].pc \in Settled
        /\ calls[c].log # <<>>) =>
         IF WellFormed(calls[c].answer)
         THEN /\ calls[c].pc = "resolved"
              /\ calls[c].val.kind = "pose"
              /\ LET fs == Fields(calls[c].answer)
                 IN calls[c].val.pose[1] =
                      Pose(ParsePart(fs[1]), ParsePart(fs[2]),
                           ParsePart(fs[3]), ParsePart(fs[4]),
                           ParsePart(fs[5]))
         ELSE /\ calls[c].pc = "rejected"
              /\ calls[c].err = InvalidPosition
              /\ lastWriter # c

\* The call is a checkRobotErrorCode that received an answer.
Answered(c) ==
  /\ calls[c].op = "checkRobotErrorCode"
  /\ calls[c].pc \in Settled
  /\ calls[c].log # <<>>

\* C12: checkRobotErrorCode always returns a result, and the result is the
\* table: the answer's integer 0 gives Ok, 1 gives the hardware error, 2 the
\* command error, every other integer and every answer without an integer
\* gives the unknown error; Ok is returned only for 0.
C12_ErrorCodeTable ==
  \A c \in Calls :
    Answered(c) =>
      LET n == ParseInt(calls[c].answer)
          ok == calls[c].val.kind = "ok"
          failed == calls[c].val.kind = "error"
      IN /\ calls[c].pc = "resolved"
         /\ ok \/ failed
         /\ ok <=> n = 0
         /\ n = 1 => failed /\ calls[c].code = 1
         /\ n = 2 => failed /\ calls[c].code = 2
         /\ n \notin {0, 1, 2} => failed /\ calls[c].code = 99

\* C12 witness: one query was answered 2, another with a text that holds no
\* integer.
C12_Witness ==
  \E c, d \in Calls :
    /\ Answered(c)
    /\ ParseInt(calls[c].answer) = 2
    /\ calls[c].code = COMMAND_ERROR
    /\ Answered(d)
    /\ ParseInt(calls[d].answer) = NaN
    /\ calls[d].code = UNKNOWN_ERROR

\* The operations that need the transport.
TransportOps ==
  {"sendCommandNoAnswer", "sendCommandWithAnswer", "moveTo", "movePath",
   "setGripper", "setSpeed", "setToolLength", "setGripPressure",
   "rotateAxis", "nest", "reset", "moveToHomePosition",
   "checkRobotErrorCode"}

\* C13: a step that invokes an operation that needs the transport while the
\* port is not open (before connect, before the port has opened, after
\* disconnect) leaves the call failed with PortNotOpen, nothing written, and
\* pose, gripper, speed and tool length as they were.
C13_ClosedPortRejects ==
  [][(/\ nCalls' = nCalls + 1
      /\ ~checkPortOpen
      /\ calls'[nCalls'].op \in TransportOps) =>
       (/\ calls'[nCalls'].pc = "rejected"
        /\ calls'[nCalls'].err = PortNotOpen
        /\ calls'[nCalls'].log = <<>>
        /\ UNCHANGED <<position, toolIsOpen, speed, toolLength>>)]_vars

\* C13 witness: a speed was set on the open port, and after disconnect
\* setSpeed with another valid speed failed with PortNotOpen and left it.
C13_Witness ==
  \E c \in Calls :
    /\ port = "null"
    /\ speed # -1
    /\ calls[c].op = "setSpeed"
    /\ calls[c].pc = "rejected"
    /\ calls[c].err = PortNotOpen
    /\ calls[c].log = <<>>
    /\ ~SpeedRejected(calls[c].arg[1])
    /\ Floor(calls[c].arg[1]) # speed

\* The three arguments are inside their ranges.
GripValid(a) ==
  /\ a[1] \in 0 .. 15
  /\ a[2] \in 0 .. 15
  /\ a[3] \in 0 .. 99

GripErrors == {GripForceRange, RetainedForceRange, RetentionTimeRange}

\* What a valid setGripPressure(a, b, c) writes and waits.
GripExpected(a) ==
  << [ev |-> "write", cmd |-> [name |-> "GP", args |-> a, flag |-> ""]],
     DelayEv >>

\* The call was invoked on an open port.
GripChecked(c) ==
  calls[c].op = "setGripPressure" /\ calls[c].err # PortNotOpen

\* C14: on an open port setGripPressure(a, b, c) with a in 0..15, b in
\* 0..15 and c in 0..99 writes one GP a, b, c and nothing else; with any
\* argument outside its range it fails with a validation error and writes
\* nothing, and the step that invokes it leaves pose, gripper, speed and tool
\* length as they were.
C14_GripPressureValidated ==
  /\ [](\A c \in Calls :
          GripChecked(c) =>
            IF GripValid(calls[c].arg)
            THEN /\ calls[c].pc \in {"delay", "resolved"}
                 /\ calls[c].log # <<>>
                 /\ IsPrefix(calls[c].log, GripExpected(calls[c].arg))
                 /\ calls[c].pc = "resolved" <=>
                      calls[c].log = GripExpected(calls[c].arg)
            ELSE /\ calls[c].pc = "rejected"
                 /\ calls[c].err \in GripErrors
                 /\ calls[c].log = <<>>)
  /\ [][(/\ nCalls' = nCalls + 1
          /\ calls'[nCalls'].op = "setGripPressure"
          /\ ~GripValid(calls'[nCalls'].arg)) =>
           UNCHANGED <<position, toolIsOpen, speed, toolLength>>]_vars

\* C14 witness: one call with arguments at the upper ends of the ranges has
\* written GP and completed, another with the third argument just outside
\* has been rejected.
C14_Witness ==
  \E c, d \in Calls :
    /\ GripChecked(c)
    /\ calls[c].arg = <<15, 15, 99>>
    /\ calls[c].pc = "resolved"
    /\ GripChecked(d)
    /\ calls[d].arg = <<15, 15, 100>>
    /\ calls[d].pc = "rejected"

\* A step in which a caller assigns to a pose that call c returned to it.
CallerWrites(c) ==
  /\ calls[c].pc = "resolved"
  /\ calls[c].val.kind = "pose"
  /\ calls'[c].val # calls[c].val

\* C15: every pose a read hands out (getActualPosition with or without
\* refresh, getPosition) is a copy: a caller's assignment to a field of a
\* pose it was handed never changes the cache.
C15_ReadsReturnCopies ==
  [][(\E c \in Calls : CallerWrites(c)) => position' = position]_vars

\* A step in which call c hands a command to the transport.
WritesNow(c) ==
  /\ calls'[c].log # calls[c].log
  /\ Last(calls'[c].log).ev = "write"

\* Call d has written a command whose settle delay has not ended, or is
\* between two commands of its burst.
InLane(d) == calls[d].pc = "delay"

\* C16: commands are dispatched in a single lane: no call writes a command
\* while another call is inside a settle delay or inside its burst.
C16_SingleLane ==
  [][\A c \in Calls :
       WritesNow(c) => \A d \in Calls \ {c} : ~InLane(d)]_vars

\* A step in which call c completes with success.
Completes(c) == calls[c].pc # "resolved" /\ calls'[c].pc = "resolved"

\* The call is a move with a pose it moves to, and that pose: the absolute
\* target of moveTo, moveToXYZ and moveDelta, the last point of a path.
IsMove(rec) ==
  rec.op \in {"moveTo", "moveToXYZ", "moveDelta"}
    \/ (rec.op = "movePath" /\ rec.points # <<>>)
MovedTo(rec) ==
  IF rec.op = "movePath" THEN rec.points[Len(rec.points)] ELSE rec.target[1]

\* C17: when a move other than rotateAxis completes, the cached pose is the
\* pose it moved to.
C17_MoveUpdatesCache ==
  [][\A c \in Calls :
       (Completes(c) /\ IsMove(calls'[c])) =>
         position' = <<MovedTo(calls'[c])>>]_vars

\* A written command, spelled out.
Written(name, args, flag) ==
  [ev |-> "write", cmd |-> [name |-> name, args |-> args, flag |-> flag]]

\* The five coordinates of a pose as the wire carries them.
Coordinates(P) == <<fmt(P.x), fmt(P.y), fmt(P.z), fmt(P.p), fmt(P.r)>>

\* What moveTo(P, n) is to write and wait, the flag of MS being the given one.
MoveToExpected(P, n, flag) ==
  IF n = 0 THEN << Written("MP", Coordinates(P), ""), DelayEv >>
  ELSE << Written("PC", <<1>>, ""), DelayEv,
          Written("PD", <<1>> \o Coordinates(P), ""), DelayEv,
          Written("MS", <<1, n>>, flag), DelayEv >>

\* The flag of the gripper state: O for open, C for closed.
GripperFlag(open) == IF open THEN "O" ELSE "C"

\* C18: moveTo(P, n) with n > 0 writes PC 1, PD 1 with P's coordinates and
\* MS 1, n, flag, in this order, each followed by the settle delay, and
\* nothing else; with n = 0 it writes one MP; the flag written is that of the
\* cached gripper state at the moment MS is written.
C18_InterpolatedMoveBurst ==
  /\ [](\A c \in Calls :
          (calls[c].op = "moveTo" /\ calls[c].log # <<>>) =>
            \E flag \in {"O", "C"} :
              LET e == MoveToExpected(calls[c].target[1], calls[c].n, flag)
              IN /\ IsPrefix(calls[c].log, e)
                 /\ calls[c].pc = "resolved" <=> calls[c].log = e)
  /\ [][\A c \in Calls :
          (/\ calls'[c].op = "moveTo"
           /\ WritesNow(c)
           /\ Last(calls'[c].log).cmd.name = "MS") =>
            Last(calls'[c].log).cmd.flag = GripperFlag(toolIsOpen)]_vars

\* The bytes up to and with the first terminator.
FirstLine(h) ==
  LET k == CHOOSE i \in 1 .. Len(h) - 1 :
             /\ h[i] = CR /\ h[i + 1] = LF
             /\ \A j \in 1 .. i - 1 : ~(h[j] = CR /\ h[j + 1] = LF)
  IN SubSeq(h, 1, k + 1)

\* C19: one response is delivered per terminator, each its own trimmed
\* line, whatever follows the terminator in the same chunk: as soon as the
\* bytes a pending sendCommandWithAnswer has received hold a terminator it
\* has completed, with the trimmed bytes of its first line.
C19_OneResponsePerTerminator ==
  \A c \in Calls :
    (calls[c].op = "sendCommandWithAnswer" /\ HasTerminator(calls[c].heard)) =>
      /\ calls[c].pc = "resolved"
      /\ calls[c].val.text = Trim(FirstLine(calls[c].heard))

\* What rotateAxis is to write and wait: MJ with the five formatted deltas,
\* the settle delay, the pose query.
RotateExpected(a) ==
  << Written("MJ", <<fmt(a[1]), fmt(a[2]), fmt(a[3]), fmt(a[4]), fmt(a[5])>>,
             ""),
     DelayEv,
     Written("WH", <<>>, "") >>

\* The pose the first five fields of a WH answer parse to.
ParsedPose(answer) ==
  LET fs == Fields(answer)
  IN Pose(ParsePart(fs[1]), ParsePart(fs[2]), ParsePart(fs[3]),
          ParsePart(fs[4]), ParsePart(fs[5]))

\* The answer 1,+2,.5,-1,0 and the pose it denotes, in quarters.
SampleAnswer == <<"1", ",", "+", "2", ",", ".", "5", ",", "-", "1", ",", "0">>
SamplePose == Pose(4, 8, 2, -4, 0)

\* C20: rotateAxis writes MJ, waits the settle delay, then writes WH, never
\* WH before MJ, and nothing else; when it has completed and no later call
\* has assigned the cache, the cache is the pose parsed from the answer the
\* call received.
C20_RotateThenQuery ==
  \A c \in Calls :
    (calls[c].op = "rotateAxis" /\ calls[c].log # <<>>) =>
      /\ IsPrefix(calls[c].log, RotateExpected(calls[c].arg))
      /\ calls[c].pc \in {"awaitData", "resolved"} =>
           calls[c].log = RotateExpected(calls[c].arg)
      /\ calls[c].pc = "resolved" =>
           /\ Len(Fields(calls[c].answer)) >= 5
           /\ lastWriter = c =>
                /\ position = <<ParsedPose(calls[c].answer)>>
                /\ calls[c].answer = SampleAnswer => position = <<SamplePose>>

\* C20 witness: a rotation has completed on a cache that held another pose,
\* and the cache is now the pose of its answer.
C20_Witness ==
  \E c \in Calls :
    /\ calls[c].op = "rotateAxis"
    /\ calls[c].pc = "resolved"
    /\ calls[c].base # <<>>
    /\ lastWriter = c
    /\ calls[c].answer = SampleAnswer
    /\ position # calls[c].base

\* C21: a write the transport rejected fails the call with WriteFailed,
\* through sendCommandNoAnswer as through sendCommandWithAnswer, and a move
\* whose write was rejected does not assign the cached pose.
C21_WriteErrorSurfaced ==
  \A c \in Calls :
    calls[c].failed =>
      /\ calls[c].pc = "rejected"
      /\ calls[c].err = WriteFailed
      /\ lastWriter # c

====
